---- MODULE Spec2Model ----
(***************************************************************************)
(* Model of the parser orchestrator of ratel-core (core/src/parser/mod.rs  *)
(* and core/src/parser/error.rs).  The parser is a recursive descent over  *)
(* one token stream; the model keeps the call stack explicitly, one frame  *)
(* per active production, and one action per step of a production.         *)
(*                                                                         *)
(* The lexer, the statement dispatcher, the expression parser and the     *)
(* parameter_key! macro are not part of the two files; they are modelled   *)
(* from the written specification and kept as small as the orchestrator    *)
(* needs them.                                                             *)
(***************************************************************************)
EXTENDS Integers, Sequences, FiniteSets, TLC

VARIABLES src, pos, errors, body, stack, ret, result, exprs, last

vars == <<src, pos, errors, body, stack, ret, result, exprs, last>>

(* ------------------------------ bounds --------------------------------- *)

\* longest token stream handed to parse()
MaxLen == 5

\* longest token stream handed to parameter_list()
MaxParamLen == 6

\* longest expression list handed to params_from_expressions()
MaxExprs == 3

\* the error log is a Vec that grows without limit; statement-level recovery
\* stops being explored once the log holds this many entries
MaxErrors == 6

(* ------------------------------ tokens --------------------------------- *)

Identifiers == {"a", "b"}

StmtTokens == {"Semicolon", "BraceOpen", "BraceClose", "Try", "ParenClose"}

ParamTokens == Identifiers \cup {"OperatorAssign", "Comma", "ParenClose"}

SeqsUpTo(S, n) == UNION {[1..k -> S] : k \in 0..n}

(* ------------------------------- lexer --------------------------------- *)
\* Token i of the source covers the offsets (i-1, i); after the last token
\* the lexer reports EndOfProgram with an empty span at the end of the source.

AtEnd(s, p) == p > Len(s)

TokenAt(s, p) == IF AtEnd(s, p) THEN "EndOfProgram" ELSE s[p]

StartAt(s, p) == IF AtEnd(s, p) THEN Len(s) ELSE p - 1

EndAt(s, p) == IF AtEnd(s, p) THEN Len(s) ELSE p

Token == TokenAt(src, pos)

LocStart == StartAt(src, pos)

LocEnd == EndAt(src, pos)

\* lexer.consume(): advance one token; EndOfProgram stays current
Consume(s, p) == IF AtEnd(s, p) THEN p ELSE p + 1

\* lexer.invalid_token(): the diagnostic for the current token; the lexer
\* stays on that token
InvalidToken == <<Token, LocStart, LocEnd>>

(* -------------------------- recovery protocol -------------------------- *)

\* Parser::error pushes the lexer's diagnostic on the log ...
ErrorPush(log, err) == Append(log, err)

\* ... and returns T::to_error().  List<Loc<T>>: the empty list
ListToError == <<>>

\* Loc<Statement>: Statement::Error at the current span
StatementToError == [kind |-> "Error", start |-> LocStart, end |-> LocEnd, body |-> <<>>]

\* Loc<Expression>: Expression::Error at the current span
ExpressionToError == <<"Error", LocStart, LocEnd, "">>

\* Loc<Block<I>>: a block with an empty body at the current span
BlockToError == [kind |-> "Block", start |-> LocStart, end |-> LocEnd, body |-> <<>>]

\* Loc<Parameter>: the single-parameter placeholder at the current span
ParameterToError == [key |-> "", value |-> <<>>, start |-> LocStart, end |-> LocEnd]

(* ------------------------------ list builder --------------------------- *)

ListEmpty == <<>>

BuilderNew(first) == <<first>>

BuilderPush(builder, item) == Append(builder, item)

IntoList(builder) == builder

(* ------------------------------ call stack ----------------------------- *)

Frame(fn, p) ==
    [fn |-> fn, pc |-> "entry", start |-> 0, acc |-> <<>>, rd |-> FALSE,
     key |-> "", idx |-> 1, got |-> <<>>, e0 |-> Len(errors), p0 |-> p]

NoCall == [fn |-> "none", how |-> "", e0 |-> 0, p0 |-> 0, got |-> <<>>, start |-> 0]

Top == stack[Len(stack)]

Running(fn, pc) == stack # <<>> /\ Top.fn = fn /\ Top.pc = pc

\* replace the running frame
Goto(f) == [stack EXCEPT ![Len(stack)] = f]

\* replace the running frame and enter a callee at lexer position p
Call(f, fn, p) == Append(Goto(f), Frame(fn, p))

\* leave the running frame; the caller notes the value it was handed
Leave(v) ==
    LET n == Len(stack)
    IN  IF n = 1 THEN <<>>
        ELSE [SubSeq(stack, 1, n - 1) EXCEPT ![n - 1].got = Append(@, v)]

Returned(how) ==
    [fn |-> Top.fn, how |-> how, e0 |-> Top.e0, p0 |-> Top.p0,
     got |-> Top.got, start |-> Top.start]

Done == stack = <<>>

(* ------------------------- top-level entry point ----------------------- *)

NoResult == [kind |-> "None", module |-> <<>>, errors |-> <<>>]

\* a slip: the tree is handed out together with the diagnostics
ParseResultWithTree(errs, b) == [kind |-> "Ok", module |-> <<b>>, errors |-> errs]

\* match errors.len() { 0 => Ok(Module::new(body, arena)), _ => Err(errors) }
ParseResult(errs, b) ==
    IF Len(errs) = 0
    THEN [kind |-> "Ok", module |-> <<b>>, errors |-> <<>>]
    ELSE [kind |-> "Err", module |-> <<>>, errors |-> errs]

\* parse(source): Parser::new has run (the initial state); run Parser::parse
PublicParse ==
    /\ Running("parse", "entry")
    /\ stack' = Call([Top EXCEPT !.pc = "match"], "parser_parse", pos)
    /\ last' = NoCall
    /\ UNCHANGED <<src, pos, errors, body, ret, result, exprs>>

\* ... then turn the parser's end state into the result
PublicParseMatch ==
    /\ Running("parse", "match")
    /\ result' = ParseResult(errors, body)
    /\ ret' = result'
    /\ stack' = Leave(result')
    /\ last' = Returned("match")
    /\ UNCHANGED <<src, pos, errors, body, exprs>>

(* ----------------------------- Parser::parse --------------------------- *)

\* a slip: the early return tests for the wrong token
EarlyReturnWrongToken(token) == token = "BraceClose"

\* if self.lexer.token == EndOfProgram { return; }
EarlyReturn(token) == token = "EndOfProgram"

\* the early return on EndOfProgram, or the first statement() call
ParserParseEntry ==
    /\ Running("parser_parse", "entry")
    /\ \/ /\ EarlyReturn(Token)
          /\ stack' = Leave("unit")
          /\ last' = Returned("empty")
       \/ /\ ~EarlyReturn(Token)
          /\ stack' = Call([Top EXCEPT !.pc = "seed"], "statement", pos)
          /\ last' = NoCall
    /\ UNCHANGED <<src, pos, errors, body, ret, result, exprs>>

\* a slip: the finished list is never stored
ParserBodyForgotten(builder) == ListEmpty

\* self.body = builder.into_list()
ParserBody(builder) == IntoList(builder)

\* ListBuilder::new(self.arena, statement)
ParserParseSeed ==
    /\ Running("parser_parse", "seed")
    /\ stack' = Goto([Top EXCEPT !.pc = "loop", !.acc = BuilderNew(ret)])
    /\ last' = NoCall
    /\ UNCHANGED <<src, pos, errors, body, ret, result, exprs>>

\* while self.lexer.token != EndOfProgram { ... }; self.body = builder.into_list()
ParserParseLoop ==
    /\ Running("parser_parse", "loop")
    /\ \/ /\ Token # "EndOfProgram"
          /\ stack' = Call([Top EXCEPT !.pc = "push"], "statement", pos)
          /\ last' = NoCall
          /\ body' = body
       \/ /\ Token = "EndOfProgram"
          /\ body' = ParserBody(Top.acc)
          /\ stack' = Leave("unit")
          /\ last' = Returned("list")
    /\ UNCHANGED <<src, pos, errors, ret, result, exprs>>

\* builder.push(self.statement())
ParserParsePush ==
    /\ Running("parser_parse", "push")
    /\ stack' = Goto([Top EXCEPT !.pc = "loop", !.acc = BuilderPush(Top.acc, ret)])
    /\ last' = NoCall
    /\ UNCHANGED <<src, pos, errors, body, ret, result, exprs>>

(* ------------------------------- statement ----------------------------- *)
\* The statement dispatcher: an empty statement, a block statement, a
\* statement that takes a block after its keyword, and statement-level
\* recovery for every other token.

EmptyStatement == [kind |-> "Empty", start |-> LocStart, end |-> LocEnd, body |-> <<>>]

StatementEntry ==
    /\ Running("statement", "entry")
    /\ \/ /\ Token = "Semicolon"
          /\ pos' = Consume(src, pos)
          /\ ret' = EmptyStatement
          /\ stack' = Leave(ret')
          /\ last' = Returned("empty")
          /\ errors' = errors
       \/ /\ Token = "BraceOpen"
          /\ stack' = Call([Top EXCEPT !.pc = "wrap", !.key = "Block", !.start = LocStart],
                           "unchecked_block", pos)
          /\ last' = NoCall
          /\ UNCHANGED <<pos, ret, errors>>
       \/ /\ Token = "Try"
          /\ pos' = Consume(src, pos)
          /\ stack' = Call([Top EXCEPT !.pc = "wrap", !.key = "Try", !.start = LocStart],
                           "block", pos')
          /\ last' = NoCall
          /\ UNCHANGED <<ret, errors>>
       \/ /\ Token \notin {"Semicolon", "BraceOpen", "Try"}
          /\ Len(errors) < MaxErrors
          /\ errors' = ErrorPush(errors, InvalidToken)
          /\ ret' = StatementToError
          /\ stack' = Leave(ret')
          /\ last' = Returned("error")
          /\ pos' = pos
    /\ UNCHANGED <<src, body, result, exprs>>

StatementWrap ==
    /\ Running("statement", "wrap")
    /\ ret' = [kind |-> Top.key, start |-> Top.start, end |-> ret.end, body |-> ret.body]
    /\ stack' = Leave(ret')
    /\ last' = Returned("wrap")
    /\ UNCHANGED <<src, pos, errors, body, result, exprs>>

(* ------------------------ block, unchecked_block ----------------------- *)

\* a slip: the span boundaries are passed in the wrong order
AllocAtLocSwapped(start, end, list) ==
    [kind |-> "Block", start |-> end, end |-> start, body |-> list]

\* self.alloc_at_loc(start, end, block)
AllocAtLoc(start, end, list) ==
    [kind |-> "Block", start |-> start, end |-> end, body |-> list]

\* match self.lexer.token { BraceOpen => start_then_consume, _ => return self.error() }
BlockEntry ==
    /\ Running("block", "entry")
    /\ \/ /\ Token = "BraceOpen"
          /\ pos' = Consume(src, pos)
          /\ stack' = Call([Top EXCEPT !.pc = "close", !.start = LocStart], "raw_block", pos')
          /\ last' = NoCall
          /\ UNCHANGED <<errors, ret>>
       \/ /\ Token # "BraceOpen"
          /\ errors' = ErrorPush(errors, InvalidToken)
          /\ ret' = BlockToError
          /\ stack' = Leave(ret')
          /\ last' = Returned("error")
          /\ pos' = pos
    /\ UNCHANGED <<src, body, result, exprs>>

\* let end = self.lexer.end_then_consume(); self.alloc_at_loc(start, end, block)
BlockClose ==
    /\ Running("block", "close")
    /\ pos' = Consume(src, pos)
    /\ ret' = AllocAtLoc(Top.start, LocEnd, ret)
    /\ stack' = Leave(ret')
    /\ last' = Returned("block")
    /\ UNCHANGED <<src, errors, body, result, exprs>>

UncheckedBlockEntry ==
    /\ Running("unchecked_block", "entry")
    /\ pos' = Consume(src, pos)
    /\ stack' = Call([Top EXCEPT !.pc = "close", !.start = LocStart], "raw_block", pos')
    /\ last' = NoCall
    /\ UNCHANGED <<src, errors, body, ret, result, exprs>>

UncheckedBlockClose ==
    /\ Running("unchecked_block", "close")
    /\ pos' = Consume(src, pos)
    /\ ret' = AllocAtLoc(Top.start, LocEnd, ret)
    /\ stack' = Leave(ret')
    /\ last' = Returned("block")
    /\ UNCHANGED <<src, errors, body, result, exprs>>

(* ------------------------------- raw_block ----------------------------- *)

\* a slip: the block is built before the items are taken from the builder
RawBlockResultEmpty(builder) == ListEmpty

\* Block { body: builder.into_list() }
RawBlockResult(builder) == IntoList(builder)

\* the empty body on an immediate BraceClose, or the first I::parse call
RawBlockEntry ==
    /\ Running("raw_block", "entry")
    /\ \/ /\ Token = "BraceClose"
          /\ ret' = ListEmpty
          /\ stack' = Leave(ret')
          /\ last' = Returned("empty")
       \/ /\ Token # "BraceClose"
          /\ stack' = Call([Top EXCEPT !.pc = "seed"], "statement", pos)
          /\ last' = NoCall
          /\ ret' = ret
    /\ UNCHANGED <<src, pos, errors, body, result, exprs>>

RawBlockSeed ==
    /\ Running("raw_block", "seed")
    /\ stack' = Goto([Top EXCEPT !.pc = "loop", !.acc = BuilderNew(ret)])
    /\ last' = NoCall
    /\ UNCHANGED <<src, pos, errors, body, ret, result, exprs>>

\* while self.lexer.token != BraceClose { ... }; Block { body: builder.into_list() }
RawBlockLoop ==
    /\ Running("raw_block", "loop")
    /\ \/ /\ Token # "BraceClose"
          /\ stack' = Call([Top EXCEPT !.pc = "push"], "statement", pos)
          /\ last' = NoCall
          /\ ret' = ret
       \/ /\ Token = "BraceClose"
          /\ ret' = RawBlockResult(Top.acc)
          /\ stack' = Leave(ret')
          /\ last' = Returned("list")
    /\ UNCHANGED <<src, pos, errors, body, result, exprs>>

RawBlockPush ==
    /\ Running("raw_block", "push")
    /\ stack' = Goto([Top EXCEPT !.pc = "loop", !.acc = BuilderPush(Top.acc, ret)])
    /\ last' = NoCall
    /\ UNCHANGED <<src, pos, errors, body, ret, result, exprs>>

(* ------------------------------ expression ----------------------------- *)
\* The expression parser at binding power B1, as far as a default value
\* needs it: an identifier is a primary expression; any other token gets
\* expression-level recovery.

ExpressionEntry ==
    /\ Running("expression", "entry")
    /\ \/ /\ Token \in Identifiers
          /\ pos' = Consume(src, pos)
          /\ ret' = <<"Identifier", LocStart, LocEnd, Token>>
          /\ stack' = Leave(ret')
          /\ last' = Returned("primary")
          /\ errors' = errors
       \/ /\ Token \notin Identifiers
          /\ errors' = ErrorPush(errors, InvalidToken)
          /\ ret' = ExpressionToError
          /\ stack' = Leave(ret')
          /\ last' = Returned("error")
          /\ pos' = pos
    /\ UNCHANGED <<src, body, result, exprs>>

(* ---------------------------- parameter_list --------------------------- *)

\* a slip: the default value is dropped from the parameter
AllocInLocNoValue(key, value) ==
    [key |-> key, value |-> <<>>, start |-> LocStart, end |-> LocEnd]

\* Parameter { key, value } as self.alloc_in_loc wraps it: the current span
AllocInLoc(key, value) ==
    [key |-> key, value |-> value, start |-> LocStart, end |-> LocEnd]

\* a slip: the guard on require_defaults is lost
DefaultNeverMissing(require_defaults) == FALSE

\* a token other than OperatorAssign after the key: an error once a default was seen
DefaultMissing(require_defaults) == require_defaults

\* let key = parameter_key!(self): an identifier, or recovery for the list
ParameterKey ==
    /\ Running("parameter_list", "entry")
    /\ \/ /\ Token \in Identifiers
          /\ pos' = Consume(src, pos)
          /\ stack' = Goto([Top EXCEPT !.pc = "value", !.key = Token])
          /\ last' = NoCall
          /\ UNCHANGED <<errors, ret>>
       \/ /\ Token \notin Identifiers
          /\ errors' = ErrorPush(errors, InvalidToken)
          /\ ret' = ListToError
          /\ stack' = Leave(ret')
          /\ last' = Returned("key")
          /\ pos' = pos
    /\ UNCHANGED <<src, body, result, exprs>>

\* let value = match self.lexer.token { ... }, and the push of a parameter without default
ParameterValue ==
    /\ Running("parameter_list", "value")
    /\ \/ /\ Token = "OperatorAssign"
          /\ pos' = Consume(src, pos)
          /\ stack' = Call([Top EXCEPT !.pc = "push", !.rd = TRUE], "expression", pos')
          /\ last' = NoCall
          /\ UNCHANGED <<errors, ret>>
       \/ /\ Token # "OperatorAssign"
          /\ DefaultMissing(Top.rd)
          /\ errors' = ErrorPush(errors, InvalidToken)
          /\ ret' = ListToError
          /\ stack' = Leave(ret')
          /\ last' = Returned("default")
          /\ pos' = pos
       \/ /\ Token # "OperatorAssign"
          /\ ~DefaultMissing(Top.rd)
          /\ stack' = Goto([Top EXCEPT !.pc = "sep",
                                       !.acc = BuilderPush(Top.acc, AllocInLoc(Top.key, <<>>))])
          /\ last' = NoCall
          /\ UNCHANGED <<pos, errors, ret>>
    /\ UNCHANGED <<src, body, result, exprs>>

\* builder.push(...) of a parameter with the default value just parsed
ParameterPush ==
    /\ Running("parameter_list", "push")
    /\ stack' = Goto([Top EXCEPT !.pc = "sep",
                                 !.acc = BuilderPush(Top.acc, AllocInLoc(Top.key, <<ret>>))])
    /\ last' = NoCall
    /\ UNCHANGED <<src, pos, errors, body, ret, result, exprs>>

\* match self.lexer.token { ParenClose => break, Comma => continue, _ => error }
ParameterSeparator ==
    /\ Running("parameter_list", "sep")
    /\ \/ /\ Token = "ParenClose"
          /\ pos' = Consume(src, pos)
          /\ ret' = IntoList(Top.acc)
          /\ stack' = Leave(ret')
          /\ last' = Returned("list")
          /\ errors' = errors
       \/ /\ Token = "Comma"
          /\ pos' = Consume(src, pos)
          /\ stack' = Goto([Top EXCEPT !.pc = "entry"])
          /\ last' = NoCall
          /\ UNCHANGED <<errors, ret>>
       \/ /\ Token \notin {"ParenClose", "Comma"}
          /\ errors' = ErrorPush(errors, InvalidToken)
          /\ ret' = ListToError
          /\ stack' = Leave(ret')
          /\ last' = Returned("separator")
          /\ pos' = pos
    /\ UNCHANGED <<src, body, result, exprs>>

(* ---------------- param_from_expression, params_from_expressions ------- *)
\* Expressions are <<"Identifier", start, end, name>>, <<"Number", start, end, text>>,
\* <<"Error", start, end, "">> and <<"Binary", start, end, operator, left, right>>.

IsAssign(e) == e[1] = "Binary" /\ e[4] = "Assign"

\* a slip: the sides of the assignment are taken the wrong way round
KeyOfRight(e) == IF IsAssign(e) THEN e[6] ELSE e

\* the (key, value) split of param_from_expression
KeyOf(e) == IF IsAssign(e) THEN e[5] ELSE e

ValueOf(e) == IF IsAssign(e) THEN <<e[6]>> ELSE <<>>

\* key.item is Expression::Identifier
IsIdentifier(k) == k[1] = "Identifier"

\* the parameter allocated at the expression's own span
ParamFromExpression(e) ==
    [key |-> KeyOf(e)[4], value |-> ValueOf(e), start |-> e[2], end |-> e[3]]

\* one call of param_from_expression: the log and the parameter it leaves
ParamStep(log, e) ==
    IF IsIdentifier(KeyOf(e))
    THEN [errors |-> log, param |-> ParamFromExpression(e)]
    ELSE [errors |-> ErrorPush(log, InvalidToken), param |-> ParameterToError]

\* expressions.next(): None returns List::empty(), Some seeds the builder
ParamsFromExpressionsEntry ==
    /\ Running("params_from_expressions", "entry")
    /\ \/ /\ exprs = <<>>
          /\ ret' = ListEmpty
          /\ stack' = Leave(ret')
          /\ last' = Returned("empty")
          /\ errors' = errors
       \/ /\ exprs # <<>>
          /\ LET r == ParamStep(errors, exprs[1])
             IN  /\ errors' = r.errors
                 /\ stack' = Goto([Top EXCEPT !.pc = "loop", !.idx = 2,
                                              !.acc = BuilderNew(r.param)])
          /\ last' = NoCall
          /\ ret' = ret
    /\ UNCHANGED <<src, pos, body, result, exprs>>

\* for &expression in expressions { builder.push(...) }; builder.into_list()
ParamsFromExpressionsLoop ==
    /\ Running("params_from_expressions", "loop")
    /\ \/ /\ Top.idx <= Len(exprs)
          /\ LET r == ParamStep(errors, exprs[Top.idx])
             IN  /\ errors' = r.errors
                 /\ stack' = Goto([Top EXCEPT !.idx = Top.idx + 1,
                                              !.acc = BuilderPush(Top.acc, r.param)])
          /\ last' = NoCall
          /\ ret' = ret
       \/ /\ Top.idx > Len(exprs)
          /\ ret' = IntoList(Top.acc)
          /\ stack' = Leave(ret')
          /\ last' = Returned("list")
          /\ errors' = errors
    /\ UNCHANGED <<src, pos, body, result, exprs>>

(* --------------------------- initial states ---------------------------- *)

IdentA == <<"Identifier", 0, 1, "a">>

IdentB == <<"Identifier", 2, 3, "b">>

NumberOne == <<"Number", 4, 5, "1">>

\* the expressions a tentatively parsed parenthesised list can hold
ExprSet ==
    { IdentA, IdentB, NumberOne,
      <<"Binary", 0, 5, "Assign", IdentA, NumberOne>>,
      <<"Binary", 2, 5, "Assign", IdentB, IdentA>>,
      <<"Binary", 0, 3, "Assign", NumberOne, IdentB>>,
      <<"Binary", 0, 3, "Add", IdentA, IdentB>> }

\* Parser::new: the lexer on the first token, an empty log, an empty body
NewParser(entry) ==
    /\ pos = 1
    /\ errors = <<>>
    /\ body = ListEmpty
    /\ stack = << [fn |-> entry, pc |-> "entry", start |-> 0, acc |-> <<>>, rd |-> FALSE,
                   key |-> "", idx |-> 1, got |-> <<>>, e0 |-> 0, p0 |-> 1] >>
    /\ ret = <<>>
    /\ result = NoResult
    /\ last = NoCall

\* parse(source) on a token stream
InitParse ==
    /\ src \in SeqsUpTo(StmtTokens, MaxLen)
    /\ exprs = <<>>
    /\ NewParser("parse")

\* parameter_list() with the lexer on the token after the opening parenthesis
InitParameterList ==
    /\ src \in SeqsUpTo(ParamTokens, MaxParamLen)
    /\ exprs = <<>>
    /\ NewParser("parameter_list")

\* params_from_expressions(list) with the lexer on the token after the list
InitParamsFromExpressions ==
    /\ src \in SeqsUpTo({"Arrow"}, 1)
    /\ exprs \in SeqsUpTo(ExprSet, MaxExprs)
    /\ NewParser("params_from_expressions")

Init == InitParse \/ InitParameterList \/ InitParamsFromExpressions

NextParse ==
    \/ PublicParse
    \/ PublicParseMatch
    \/ ParserParseEntry
    \/ ParserParseSeed
    \/ ParserParseLoop
    \/ ParserParsePush
    \/ StatementEntry
    \/ StatementWrap
    \/ BlockEntry
    \/ BlockClose
    \/ UncheckedBlockEntry
    \/ UncheckedBlockClose
    \/ RawBlockEntry
    \/ RawBlockSeed
    \/ RawBlockLoop
    \/ RawBlockPush

NextParameterList ==
    \/ ExpressionEntry
    \/ ParameterKey
    \/ ParameterValue
    \/ ParameterPush
    \/ ParameterSeparator

NextParamsFromExpressions ==
    \/ ParamsFromExpressionsEntry
    \/ ParamsFromExpressionsLoop

Next == NextParse \/ NextParameterList \/ NextParamsFromExpressions

\* every entry point
Spec == Init /\ [][Next]_vars

\* parameter_list() alone
SpecParameterList == InitParameterList /\ [][NextParameterList]_vars

(* ======================================================================= *)
(*                               properties                                *)
(* ======================================================================= *)

Finished(fn) == last.fn = fn

(* C1: parse(source) is Ok exactly when the error log is empty once
   Parser::parse has finished; a non-empty log gives Err carrying the whole
   log in recorded order and no module, an empty log gives the module built
   from the parser's body. *)
C1_OkIffLogEmpty ==
    Finished("parse") =>
        /\ (result.kind = "Ok") <=> (errors = <<>>)
        /\ errors # <<>> =>
              /\ result.kind = "Err"
              /\ result.errors = errors
              /\ result.module = <<>>
        /\ errors = <<>> => result.module = <<body>>

C1_Witness ==
    /\ Finished("parse")
    /\ result.kind = "Err"
    /\ Len(result.errors) = 2
    /\ result.errors[1][2] < result.errors[2][2]

OnlySemicolons == src # <<>> /\ \A i \in DOMAIN src : src[i] = "Semicolon"

(* C2: a source of N >= 1 empty-statement terminators gives a module whose
   body is N Statement::Empty nodes in source order and no diagnostic; and
   whenever Parser::parse finishes its loop, the body is the statements its
   statement() calls returned, in call order. *)
C2_EmptyStatementsInOrder ==
    /\ (Finished("parse") /\ OnlySemicolons) =>
          /\ result.kind = "Ok"
          /\ errors = <<>>
          /\ result.module[1] =
                [i \in 1..Len(src) |->
                    [kind |-> "Empty", start |-> i - 1, end |-> i, body |-> <<>>]]
    /\ (Finished("parser_parse") /\ last.how = "list") =>
          /\ body = last.got
          /\ Len(body) >= 1

C2_Witness ==
    /\ Finished("parse")
    /\ src = <<"Semicolon", "Semicolon", "Semicolon">>
    /\ Len(result.module[1]) = 3

(* C3: on empty input parse() is Ok with the empty statement list and an
   empty log, and no statement() call is ever made. *)
C3_EmptyInput ==
    src = <<>> =>
        /\ \A i \in DOMAIN stack : stack[i].fn # "statement"
        /\ Finished("parser_parse") => (last.how = "empty" /\ last.got = <<>>)
        /\ Finished("parse") =>
              /\ result.kind = "Ok"
              /\ result.module = <<ListEmpty>>
              /\ errors = <<>>

C3_Witness == Finished("parse") /\ src = <<>> /\ result.kind = "Ok"

(* C4 as claimed: when parameter_list() recovers because a parameter after
   a defaulted one has no default, the log has gained exactly one entry
   over the call and the result is the empty list. *)
C4_ExactlyOneEntryDuringCall ==
    (Finished("parameter_list") /\ last.how = "default") =>
        /\ Len(errors) = last.e0 + 1
        /\ ret = <<>>

ErrorValues(values) == {i \in DOMAIN values : values[i][1] = "Error"}

DefaultsTrail(params) ==
    \A i, j \in DOMAIN params :
        (i < j /\ params[i].value # <<>>) => params[j].value # <<>>

(* C4 as amended: that recovery returns the empty list and appends exactly
   one entry, the diagnostic for the token after the key; over the whole
   call the log gains that entry plus one for every default-value
   expression that itself recovered.  And parameter_list() never returns a
   list in which a parameter without default follows one with a default. *)
C4_RecoveryAddsOneEntry ==
    /\ (Finished("parameter_list") /\ last.how = "default") =>
          /\ ret = <<>>
          /\ Len(errors) = last.e0 + 1 + Cardinality(ErrorValues(last.got))
          /\ errors[Len(errors)] = <<Token, LocStart, LocEnd>>
          /\ last.got # <<>>
    /\ (Finished("parameter_list") /\ last.how = "list") => DefaultsTrail(ret)

C4_Witness ==
    /\ Finished("parameter_list")
    /\ last.how = "default"
    /\ Len(errors) = 1
    /\ Token = "ParenClose"

Bad == [ok |-> FALSE, params |-> <<>>, next |-> 0]

RECURSIVE Expected(_, _, _, _)
Expected(s, i, rd, acc) ==
    LET sep(j, d, a) ==
            IF TokenAt(s, j) = "ParenClose" THEN [ok |-> TRUE, params |-> a, next |-> j + 1]
            ELSE IF TokenAt(s, j) = "Comma" THEN Expected(s, j + 1, d, a)
            ELSE Bad
    IN  IF TokenAt(s, i) \notin Identifiers THEN Bad
        ELSE IF TokenAt(s, i + 1) = "OperatorAssign"
        THEN IF TokenAt(s, i + 2) \in Identifiers
             THEN sep(i + 3, TRUE, Append(acc, <<s[i], s[i + 2]>>))
             ELSE Bad
        ELSE IF rd THEN Bad
        ELSE sep(i + 1, FALSE, Append(acc, <<s[i], "">>))

KeyAndDefault(param) ==
    <<param.key, IF param.value = <<>> THEN "" ELSE param.value[1][4]>>

(* C5: on a well-formed list (identifier keys separated by commas, closed
   by a parenthesis, every parameter after the first defaulted one also
   defaulted) parameter_list() records nothing, consumes the closing
   parenthesis and returns one parameter per key in source order, each with
   its own default or none. *)
C5_WellFormedList ==
    (Finished("parameter_list") /\ Expected(src, 1, FALSE, <<>>).ok) =>
        LET want == Expected(src, 1, FALSE, <<>>)
        IN  /\ last.how = "list"
            /\ errors = <<>>
            /\ pos = want.next
            /\ src[pos - 1] = "ParenClose"
            /\ Len(ret) = Len(want.params)
            /\ \A i \in DOMAIN ret : KeyAndDefault(ret[i]) = want.params[i]

C5_Witness ==
    /\ Finished("parameter_list")
    /\ src = <<"a", "Comma", "b", "OperatorAssign", "a", "ParenClose">>
    /\ Len(ret) = 2

AtLoopHead == stack # <<>> /\ Top.fn \in {"parser_parse", "raw_block"} /\ Top.pc = "loop"

(* C6: Parser::parse terminates on every token stream.  The lexer cannot
   leave EndOfProgram, and the loops of Parser::parse and raw_block decide
   on the current token alone, so the claim requires that a loop which
   tests its condition at end-of-input exits: the step it takes there
   returns to its caller instead of calling the item parser again. *)
C6_LoopsExitAtEndOfInput ==
    [][(AtLoopHead /\ Token = "EndOfProgram") => Len(stack') < Len(stack)]_vars

(* C7: no token position contributes more than one entry to the error log,
   and the entries of the log are in source order. *)
C7_OneDiagnosticPerPosition ==
    \A i, j \in DOMAIN errors :
        i < j => (errors[i][2] # errors[j][2] /\ errors[i][2] <= errors[j][2])

(* C8: block() at a token other than an opening brace appends exactly one
   diagnostic, returns a placeholder block with an empty body, calls
   raw_block() not at all and consumes no token; at an opening brace it
   consumes the brace, calls raw_block() once for the body, consumes the
   next token, a closing brace, and spans from the opening brace's start to
   the closing brace's end, start <= end. *)
C8_BlockRecoversOrSpans ==
    Finished("block") =>
        /\ (last.how = "error") <=> (TokenAt(src, last.p0) # "BraceOpen")
        /\ last.how = "error" =>
              /\ Len(errors) = last.e0 + 1
              /\ errors[Len(errors)] = <<TokenAt(src, last.p0), StartAt(src, last.p0),
                                         EndAt(src, last.p0)>>
              /\ ret.kind = "Block"
              /\ ret.body = <<>>
              /\ last.got = <<>>
              /\ pos = last.p0
        /\ last.how # "error" =>
              /\ last.how = "block"
              /\ Len(last.got) = 1
              /\ ret.body = last.got[1]
              /\ pos >= last.p0 + 2
              /\ src[pos - 1] = "BraceClose"
              /\ ret.start = last.p0 - 1
              /\ ret.end = pos - 1
              /\ ret.start <= ret.end

C8_Witness ==
    /\ Finished("block")
    /\ last.how = "block"
    /\ Len(errors) = 1
    /\ ret.start = 2

(* C9: raw_block() at a closing brace returns the empty list with no
   item-parsing call, no token consumed and no diagnostic; otherwise it
   returns only at a closing brace, after at least one item-parsing call,
   with the items in the order they were parsed. *)
C9_RawBlockBody ==
    Finished("raw_block") =>
        /\ (last.how = "empty") <=> (TokenAt(src, last.p0) = "BraceClose")
        /\ last.how = "empty" =>
              /\ ret = <<>>
              /\ last.got = <<>>
              /\ pos = last.p0
              /\ Len(errors) = last.e0
        /\ last.how # "empty" =>
              /\ Token = "BraceClose"
              /\ Len(last.got) >= 1
              /\ ret = last.got

C9_Witness ==
    /\ Finished("raw_block")
    /\ last.how = "list"
    /\ Len(ret) = 2
    /\ ret[1].kind # ret[2].kind

PlainKey(e) ==
    IF e[1] = "Binary" /\ e[4] = "Assign" THEN e[5][1] = "Identifier"
    ELSE e[1] = "Identifier"

(* C10: params_from_expressions returns as many parameters as it was given
   expressions, in the same order: an assignment to an identifier gives that
   key with the right side as default, an identifier gives that key without
   default, anything else gives the placeholder and one diagnostic for that
   element, the other elements being converted all the same. *)
C10_ParamsFromExpressions ==
    Finished("params_from_expressions") =>
        /\ Len(ret) = Len(exprs)
        /\ \A i \in DOMAIN exprs :
              LET e == exprs[i]
              IN  /\ (e[1] = "Identifier") =>
                        (ret[i].key = e[4] /\ ret[i].value = <<>>)
                  /\ (e[1] = "Binary" /\ e[4] = "Assign" /\ e[5][1] = "Identifier") =>
                        (ret[i].key = e[5][4] /\ ret[i].value = <<e[6]>>)
                  /\ PlainKey(e) => (ret[i].start = e[2] /\ ret[i].end = e[3])
                  /\ ~PlainKey(e) => (ret[i].key = "" /\ ret[i].value = <<>>)
        /\ Len(errors) = last.e0 + Cardinality({i \in DOMAIN exprs : ~PlainKey(exprs[i])})

C10_Witness ==
    /\ Finished("params_from_expressions")
    /\ Len(exprs) = 3
    /\ ~PlainKey(exprs[1])
    /\ exprs[2][1] = "Binary" /\ PlainKey(exprs[2])
    /\ exprs[3][1] = "Identifier"
    /\ Len(errors) = 1

====
